---- MODULE Spec2Model ----
(***************************************************************************)
(* Model of the family-genealogy registry: the Person table, the           *)
(* ParentChild and Partnership edge tables, modification proposals, the    *)
(* audit log, the request handlers of genealogy/views.py that write them,  *)
(* and the traversal and validation functions of genealogy/models.py and   *)
(* genealogy/utils.py.                                                     *)
(*                                                                         *)
(* Tables are sets of rows keyed by an auto-increment id.  A date is the   *)
(* number of days since 1949-12-31; NULL (a database NULL, Python's None)  *)
(* is 0, which is neither a date nor an id.                                *)
(***************************************************************************)
EXTENDS Integers, Sequences, FiniteSets, TLC

\* ------------------------------------------------------------------ bounds
MaxPersons == 3
MaxReqs == 2
MaxLog == 3
MaxProposals == 2
MaxTokens == 3

\* ------------------------------------------------------- program constants
NULL == 0
MinParentAgeYears == 10
MaxCircularDepth == 10
SuspectAgeGapYears == 12

\* days/365.25 is compared as days*100 against years*36525
DaysPerYearX100 == 36525

\* 1950-01-01, 1960-01-01, 1975-01-01 and a day after today
DateOf == [y1950 |-> 1, y1960 |-> 3653, y1975 |-> 9132, today |-> 28000, future |-> 28001]
Dates == {DateOf.y1950, DateOf.y1960, DateOf.y1975}
FormDates == Dates \cup {DateOf.future}

\* text a proposal can carry as new_value: ISO dates and free text
TextValues == {"1975-01-01", "farmer"}
Professions == {"", "farmer"}
FieldChoices == {"birth_date", "death_date", "profession"}

PersonIds == 1..MaxPersons
ReqIds == 1..MaxReqs
UserIds == {1, 2}
SessionIds == {1, 2}
TokenValues == {"111111", "222222"}

VARIABLES
    users,            \* accounts_user: id -> [role, is_active, can_export_data]
    persons,          \* genealogy_person: id -> row
    next_person_id,
    parent_child,     \* genealogy_parent_child: set of rows
    next_pc_id,
    partnerships,     \* genealogy_partnership: set of rows
    next_ps_id,
    proposals,        \* genealogy_modification_proposal: id -> row
    next_proposal_id,
    audit_log,        \* genealogy_audit_log, oldest first
    reqs,             \* add_child requests between form validation and save
    edits,            \* person_edit requests between form validation and save
    response,         \* what the request that completed last sent back
    otp_tokens,       \* accounts_otp_token: set of rows
    next_otp_id,
    sessions,         \* browser sessions: id -> [otp_user_id, user, pc, otp]
    logins,           \* the calls of login(request, user), oldest first
    gen_call          \* the running call of get_generation_level

vars == <<users, persons, next_person_id, parent_child, next_pc_id, partnerships,
          next_ps_id, proposals, next_proposal_id, audit_log, reqs, edits, response,
          otp_tokens, next_otp_id, sessions, logins, gen_call>>

\* the tables and sessions of the login views
authvars == <<otp_tokens, next_otp_id, sessions, logins>>

\* ----------------------------------------------------------------- helpers
Exists(p) == p \in DOMAIN persons

ActiveUsers == {u \in DOMAIN users : users[u].is_active}

IdleReq == [pc |-> "idle", user |-> NULL, parent |-> NULL, child |-> NULL]

\* a session without login, and without OTP verification under way
IdleSession == [otp_user_id |-> NULL, user |-> NULL, pc |-> "idle", otp |-> NULL]

\* no call of get_generation_level is running
IdleCall == [pc |-> "idle", person |-> NULL, root |-> NULL, current |-> NULL,
             visited |-> {}, queue |-> <<>>, result |-> <<>>]

IdleEdit == [pc |-> "idle", user |-> NULL, person |-> NULL, loaded |-> NULL,
             birth_date |-> NULL, death_date |-> NULL, profession |-> ""]

\* What a view sends back: "redirect" after success, "denied" for the redirect
\* of a failed permission test, "form" for the form shown again with its
\* errors, "flash_error" for the redirect with messages.error, "exception" for
\* an exception that leaves the view, "file" for a download.  body is the
\* downloaded document or the result of a utility call.
Respond(view, outcome) == response' = [view |-> view, outcome |-> outcome, body |-> <<>>]

\* get_parents reading the rows where self is the parent
get_parents_M(pc, x) == {e.parent : e \in {f \in pc : f.parent = x /\ f.status = "confirmed"}}

\* Person.get_parents: parents over confirmed ParentChild rows where self is child
get_parents(pc, x) == {e.parent : e \in {f \in pc : f.child = x /\ f.status = "confirmed"}}

\* get_children returning rel.parent where it should return rel.child
get_children_M(pc, x) == {e.parent : e \in {f \in pc : f.parent = x /\ f.status = "confirmed"}}

\* Person.get_children: children over confirmed ParentChild rows where self is parent
get_children(pc, x) == {e.child : e \in {f \in pc : f.parent = x /\ f.status = "confirmed"}}

\* get_siblings without the child.id != self.id test
get_siblings_M(pc, x) ==
    IF get_parents(pc, x) = {} THEN {}
    ELSE UNION {get_children(pc, p) : p \in get_parents(pc, x)}

\* Person.get_siblings: children of every parent, self excluded; [] without parents
get_siblings(pc, x) ==
    IF get_parents(pc, x) = {} THEN {}
    ELSE {c \in UNION {get_children(pc, p) : p \in get_parents(pc, x)} : c # x}

\* Person.get_partners: the other side of every confirmed Partnership
get_partners(ps, x) ==
    {e.person2 : e \in {f \in ps : f.person1 = x /\ f.status = "confirmed"}} \cup
    {e.person1 : e \in {f \in ps : f.person2 = x /\ f.status = "confirmed"}}

\* Relationship classification of person a towards person b, the fixed
\* priority list of the design: identity, direct parent, direct child,
\* direct partner, direct sibling, grandparent, grandchild, cousin,
\* aunt/uncle, niece/nephew, and "distant_relative" when nothing matches; the
\* first check that matches decides.
calculate_relationship(pc, ps, a, b) ==
    LET grandparents(x) == UNION {get_parents(pc, y) : y \in get_parents(pc, x)}
        grandchildren(x) == UNION {get_children(pc, y) : y \in get_children(pc, x)}
    IN  IF a = b THEN "same_person"
        ELSE IF a \in get_parents(pc, b) THEN "parent"
        ELSE IF a \in get_children(pc, b) THEN "child"
        ELSE IF a \in get_partners(ps, b) THEN "partner"
        ELSE IF a \in get_siblings(pc, b) THEN "sibling"
        ELSE IF a \in grandparents(b) THEN "grandparent"
        ELSE IF a \in grandchildren(b) THEN "grandchild"
        ELSE IF grandparents(a) \cap grandparents(b) # {} THEN "cousin"
        ELSE IF a \in UNION {get_siblings(pc, y) : y \in get_parents(pc, b)} THEN "aunt_uncle"
        ELSE IF a \in UNION {get_children(pc, y) : y \in get_siblings(pc, b)} THEN "niece_nephew"
        ELSE "distant_relative"

\* a queryset without order_by, read in primary-key order
RECURSIVE InPkOrder(_)
InPkOrder(rows) ==
    IF rows = {} THEN <<>>
    ELSE LET first == CHOOSE e \in rows : \A f \in rows : e.id <= f.id
         IN  <<first>> \o InPkOrder(rows \ {first})

\* the relatives of a walk that goes up only
RelativesInOrder_M(pc, x) ==
    LET up == InPkOrder({f \in pc : f.child = x /\ f.status = "confirmed"})
    IN  [k \in 1..Len(up) |-> <<up[k].parent, -1>>]

\* the rel.parent of get_parents and then the rel.child of get_children, as
\* the loops of get_generation_level meet them: <<person id, step>>, step -1
\* for a parent and +1 for a child
RelativesInOrder(pc, x) ==
    LET up == InPkOrder({f \in pc : f.child = x /\ f.status = "confirmed"})
        down == InPkOrder({f \in pc : f.parent = x /\ f.status = "confirmed"})
    IN  [k \in 1..Len(up) |-> <<up[k].parent, -1>>] \o
        [k \in 1..Len(down) |-> <<down[k].child, 1>>]

\* get_generation_level, one pass of the two for loops over the relatives of
\* the dequeued person: either the root is met (found) or the unvisited
\* relatives are marked and enqueued
RECURSIVE ScanRelatives(_, _, _, _, _, _)
ScanRelatives(rel, k, level, root, visited, queue) ==
    IF k > Len(rel) THEN [found |-> FALSE, level |-> 0, visited |-> visited, queue |-> queue]
    ELSE IF rel[k][1] = root
         THEN [found |-> TRUE, level |-> rel[k][2] * (level + 1),
               visited |-> visited, queue |-> queue]
         ELSE IF rel[k][1] \notin visited
              THEN ScanRelatives(rel, k + 1, level, root, visited \cup {rel[k][1]},
                                 Append(queue, <<rel[k][1], level + 1>>))
              ELSE ScanRelatives(rel, k + 1, level, root, visited, queue)

\* get_generation_level, the while loop over the queue; <<>> is None
RECURSIVE GenerationBFS(_, _, _, _)
GenerationBFS(pc, root, visited, queue) ==
    IF queue = <<>> THEN <<>>
    ELSE LET cur == Head(queue)
             scan == ScanRelatives(RelativesInOrder(pc, cur[1]), 1, cur[2], root,
                                   visited, Tail(queue))
         IN  IF scan.found THEN <<scan.level>>
             ELSE GenerationBFS(pc, root, scan.visited, scan.queue)

\* get_generation_level(person, root_person) with the root given: <<level>>,
\* or <<>> for None
get_generation_level(pc, person, root) ==
    IF person = root THEN <<0>>
    ELSE GenerationBFS(pc, root, {person}, <<<<person, 0>>>>)

\* get_generation_level is called: with root_person omitted the walk up the
\* first parents starts at the person; with the root given, person == root
\* returns 0 and otherwise the queue starts with the person at level 0
GenerationCall(person, root) ==
    /\ gen_call.pc \in {"idle", "done"}
    /\ Exists(person)
    /\ root # NULL => Exists(root)
    /\ gen_call' =
          IF root = NULL
          THEN [IdleCall EXCEPT !.pc = "walk", !.person = person, !.current = person]
          ELSE IF person = root
          THEN [IdleCall EXCEPT !.pc = "done", !.person = person, !.root = root,
                                !.result = <<0>>]
          ELSE [IdleCall EXCEPT !.pc = "search", !.person = person, !.root = root,
                                !.visited = {person}, !.queue = <<<<person, 0>>>>]
    /\ UNCHANGED <<users, persons, next_person_id, parent_child, next_pc_id, partnerships,
                   next_ps_id, proposals, next_proposal_id, audit_log, reqs, edits,
                   response, authvars>>

\* get_generation_level, one turn of `while current.get_parents()`: current
\* becomes its first parent; without parents current is the root, and the
\* call goes on as if the root had been given
GenerationWalk ==
    /\ gen_call.pc = "walk"
    /\ LET parents == InPkOrder({f \in parent_child : f.child = gen_call.current
                                                       /\ f.status = "confirmed"})
       IN  gen_call' =
             IF parents # <<>>
             THEN [gen_call EXCEPT !.current = parents[1].parent]
             ELSE IF gen_call.person = gen_call.current
             THEN [gen_call EXCEPT !.pc = "done", !.root = gen_call.current,
                                   !.result = <<0>>]
             ELSE [gen_call EXCEPT !.pc = "search", !.root = gen_call.current,
                                   !.visited = {gen_call.person},
                                   !.queue = <<<<gen_call.person, 0>>>>]
    /\ UNCHANGED <<users, persons, next_person_id, parent_child, next_pc_id, partnerships,
                   next_ps_id, proposals, next_proposal_id, audit_log, reqs, edits,
                   response, authvars>>

\* get_generation_level, one turn of `while queue`: the head is taken off and
\* its relatives scanned; the call returns when the root is met or the queue
\* is empty
GenerationSearch ==
    /\ gen_call.pc = "search"
    /\ gen_call' =
          IF gen_call.queue = <<>>
          THEN [gen_call EXCEPT !.pc = "done", !.result = <<>>]
          ELSE LET cur == Head(gen_call.queue)
                   scan == ScanRelatives(RelativesInOrder(parent_child, cur[1]), 1, cur[2],
                                         gen_call.root, gen_call.visited, Tail(gen_call.queue))
               IN  IF scan.found
                   THEN [gen_call EXCEPT !.pc = "done", !.result = <<scan.level>>,
                                         !.queue = <<>>]
                   ELSE [gen_call EXCEPT !.visited = scan.visited, !.queue = scan.queue]
    /\ UNCHANGED <<users, persons, next_person_id, parent_child, next_pc_id, partnerships,
                   next_ps_id, proposals, next_proposal_id, audit_log, reqs, edits,
                   response, authvars>>

\* has_circular_relationship giving up after one hop
RECURSIVE has_circular_relationship_M(_, _, _, _)
has_circular_relationship_M(pc, person, visited, depth) ==
    IF depth > 1 THEN FALSE
    ELSE IF person \in visited THEN TRUE
    ELSE \/ \E parent \in get_parents(pc, person) :
              has_circular_relationship_M(pc, parent, visited \cup {person}, depth + 1)
         \/ \E child \in get_children(pc, person) :
              has_circular_relationship_M(pc, child, visited \cup {person}, depth + 1)

\* has_circular_relationship(person, visited, depth)
RECURSIVE has_circular_relationship(_, _, _, _)
has_circular_relationship(pc, person, visited, depth) ==
    IF depth > MaxCircularDepth THEN FALSE
    ELSE IF person \in visited THEN TRUE
    ELSE \/ \E parent \in get_parents(pc, person) :
              has_circular_relationship(pc, parent, visited \cup {person}, depth + 1)
         \/ \E child \in get_children(pc, person) :
              has_circular_relationship(pc, child, visited \cup {person}, depth + 1)

\* validate_family_tree, first pass: the persons reported with
\* "Relation circulaire detectee"
validate_family_tree_circular(ps, pc) ==
    {p \in DOMAIN ps : has_circular_relationship(pc, p, {}, 0)}

\* An exception raised inside validate_family_tree while the Person with
\* this id is checked in the circularity pass or in the dates pass.
ValidateFaults ==
    {[at |-> "none", id |-> NULL]} \cup
    {[at |-> a, id |-> i] : a \in {"circular", "dates"}, i \in PersonIds}

\* the errors and warnings of one Person in the dates pass: birth after
\* death, and a parent less than twelve years older
validate_dates(ps, pc, p) ==
    [errors |-> {m \in {[kind |-> "birth_after_death", person |-> p, other |-> NULL]} :
                    /\ ps[p].birth_date # NULL /\ ps[p].death_date # NULL
                    /\ ps[p].birth_date > ps[p].death_date},
     warnings |-> {[kind |-> "age_gap", person |-> p, other |-> parent] :
                      parent \in {q \in get_parents(pc, p) :
                          /\ ps[p].birth_date # NULL /\ ps[q].birth_date # NULL
                          /\ (ps[p].birth_date - ps[q].birth_date) * 100
                                 < SuspectAgeGapYears * DaysPerYearX100}}]

\* validate_family_tree where one exception ends the pass it is raised in
validate_family_tree_M(ps, pc, fault) ==
    IF fault.at # "none" /\ fault.id \in DOMAIN ps
    THEN [errors |-> {[kind |-> "general", person |-> NULL, other |-> NULL]}, warnings |-> {}]
    ELSE [errors |-> {[kind |-> "circular", person |-> p, other |-> NULL] :
                         p \in validate_family_tree_circular(ps, pc)}
                     \cup UNION {validate_dates(ps, pc, p).errors : p \in DOMAIN ps},
          warnings |-> UNION {validate_dates(ps, pc, p).warnings : p \in DOMAIN ps}]

\* validate_family_tree: the circularity pass and the dates pass, each Person
\* inside its own try, whose except turns the exception into a warning about
\* that Person.  People come in name order, so errors and warnings are kept
\* as sets; the duplicates pass compares names, which the rows here do not
\* carry.
validate_family_tree(ps, pc, fault) ==
    LET failed(pass) == {p \in DOMAIN ps : fault = [at |-> pass, id |-> p]}
    IN  [errors |->
            {[kind |-> "circular", person |-> p, other |-> NULL] :
                p \in validate_family_tree_circular(ps, pc) \ failed("circular")}
            \cup UNION {validate_dates(ps, pc, p).errors : p \in DOMAIN ps \ failed("dates")},
         warnings |->
            {[kind |-> "check_failed", person |-> p, other |-> NULL] : p \in failed("circular")}
            \cup {[kind |-> "dates_failed", person |-> p, other |-> NULL] : p \in failed("dates")}
            \cup UNION {validate_dates(ps, pc, p).warnings : p \in DOMAIN ps \ failed("dates")}]

\* Person.can_be_modified_by: admin, owner, creator or linked account
can_be_modified_by(p, u) ==
    /\ u \in ActiveUsers
    /\ \/ users[u].role = "admin"
       \/ persons[p].owned_by = u
       \/ persons[p].created_by = u
       \/ persons[p].user_account = u

\* can_view_person(user, person); the anonymous user is NULL
can_view_person(u, row) ==
    CASE row.visibility = "public" -> TRUE
      [] row.visibility = "private" ->
            /\ u \in ActiveUsers
            /\ users[u].role = "admin" \/ row.user_account = u
      [] row.visibility = "family" -> u \in ActiveUsers
      [] OTHER -> FALSE

\* get_family_tree_data(center_person, user): an entry for every Person the
\* user can view, with the ids of all its parents, partners and children,
\* and the id of the center.  The entry's name, age, places and photo are
\* left out.
get_family_tree_data(ps, pc, pships, center, u) ==
    [individuals |->
        [p \in {q \in DOMAIN ps : can_view_person(u, ps[q])} |->
            [id |-> p, gender |-> ps[p].gender, birth_year |-> ps[p].birth_date,
             death_year |-> ps[p].death_date, is_deceased |-> ps[p].is_deceased,
             profession |-> ps[p].profession, private |-> FALSE,
             parents |-> get_parents(pc, p),
             partners |-> get_partners(pships, p),
             children |-> get_children(pc, p)]],
     root_person_id |-> center]

\* create_audit_log: one more AuditLog row; changes is the set of keys of the
\* payload
create_audit_log(log, u, action, model_name, object_id, changes) ==
    Append(log, [user |-> u, action |-> action, model_name |-> model_name,
                 object_id |-> object_id, changes |-> changes])

\* ------------------------------------------------------------ Person forms
\* Person.save without the is_deceased assignment
Person_save_M(row) == row

\* Person.save: is_deceased follows death_date
Person_save(row) == [row EXCEPT !.is_deceased = (row.death_date # NULL)]

\* PersonForm.clean: no future dates, death after birth
PersonForm_clean(birth, death) ==
    /\ birth # NULL => ~(birth > DateOf.today)
    /\ (birth # NULL /\ death # NULL) => ~(death <= birth)
    /\ death # NULL => ~(death > DateOf.today)

\* PersonForm.save for a form that lacks the profession field
PersonForm_save_M(row, birth, death, prof) ==
    [row EXCEPT !.birth_date = birth, !.death_date = death, !.is_deceased = (death # NULL)]

\* PersonForm.save(commit=False): the form's fields copied onto the instance
PersonForm_save(row, birth, death, prof) ==
    [row EXCEPT !.birth_date = birth, !.death_date = death, !.profession = prof,
                !.is_deceased = (death # NULL)]

\* person_create
PersonCreate(u, birth, death, prof) ==
    /\ u \in ActiveUsers
    /\ next_person_id <= MaxPersons
    /\ Len(audit_log) < MaxLog
    /\ PersonForm_clean(birth, death)
    /\ LET blank == [gender |-> "M", birth_date |-> NULL, death_date |-> NULL,
                     is_deceased |-> FALSE, profession |-> "", created_by |-> u,
                     owned_by |-> u, user_account |-> NULL, visibility |-> "family"]
           row == Person_save(PersonForm_save(blank, birth, death, prof))
       IN  persons' = [i \in DOMAIN persons \cup {next_person_id} |->
                          IF i = next_person_id THEN row ELSE persons[i]]
    /\ audit_log' = create_audit_log(audit_log, u, "create", "Person", next_person_id, {"form"})
    /\ next_person_id' = next_person_id + 1
    /\ Respond("person_create", "redirect")
    /\ UNCHANGED <<users, parent_child, next_pc_id, partnerships, next_ps_id,
                   proposals, next_proposal_id, reqs, edits,
                   authvars, gen_call>>

\* form.changed_data: the fields whose submitted value differs from the
\* instance the form was built on; the keys of the audit row's old values
changed_data(row, birth, death, prof) ==
    {f \in {"birth_date"} : row.birth_date # birth} \cup
    {f \in {"death_date"} : row.death_date # death} \cup
    {f \in {"profession"} : row.profession # prof}

\* person_edit when no other request runs between its load and its save
PersonEdit(u, p, birth, death, prof) ==
    /\ Exists(p)
    /\ can_be_modified_by(p, u)
    /\ Len(audit_log) < MaxLog
    /\ PersonForm_clean(birth, death)
    /\ persons' = [persons EXCEPT ![p] = Person_save(PersonForm_save(@, birth, death, prof))]
    /\ audit_log' = create_audit_log(audit_log, u, "update", "Person", p,
                                     changed_data(persons[p], birth, death, prof))
    /\ Respond("person_edit", "redirect")
    /\ UNCHANGED <<users, next_person_id, parent_child, next_pc_id, partnerships,
                   next_ps_id, proposals, next_proposal_id, reqs, edits,
                   authvars, gen_call>>

\* person_edit up to form.is_valid(): the Person is loaded, the permission
\* tested and the form, built on the loaded instance, validated; an invalid
\* form is shown again and the request is over.  A request is admitted only
\* while the audit log has room for its entry.
PersonEditLoad(u, r, p, birth, death, prof) ==
    /\ edits[r].pc = "idle"
    /\ Len(audit_log) + Cardinality({k \in ReqIds : edits[k].pc = "loaded"})
                      + Cardinality({k \in ReqIds : reqs[k].pc = "validated"}) < MaxLog
    /\ Exists(p)
    /\ can_be_modified_by(p, u)
    /\ IF PersonForm_clean(birth, death)
       THEN /\ edits' = [edits EXCEPT ![r] = [pc |-> "loaded", user |-> u, person |-> p,
                                              loaded |-> persons[p], birth_date |-> birth,
                                              death_date |-> death, profession |-> prof]]
            /\ UNCHANGED response
       ELSE /\ Respond("person_edit", "form")
            /\ UNCHANGED edits
    /\ UNCHANGED <<users, persons, next_person_id, parent_child, next_pc_id, partnerships,
                   next_ps_id, proposals, next_proposal_id, audit_log, reqs,
                   authvars, gen_call>>

\* person_edit from form.save() on: every column of the loaded instance, with
\* the form's fields set on it, is written (an UPDATE, or an INSERT when the
\* row was deleted meanwhile), then the audit row.  A creator, owner or
\* requesting user deleted meanwhile makes the write raise.
PersonEditSave(r) ==
    /\ edits[r].pc = "loaded"
    /\ Len(audit_log) < MaxLog
    /\ LET q == edits[r]
           row == Person_save(PersonForm_save(q.loaded, q.birth_date, q.death_date,
                                              q.profession))
       IN  IF \E v \in {row.created_by, row.owned_by, row.user_account} :
                 v # NULL /\ v \notin DOMAIN users
           THEN /\ Respond("person_edit", "exception")
                /\ UNCHANGED <<persons, audit_log>>
           ELSE /\ persons' = [i \in DOMAIN persons \cup {q.person} |->
                                  IF i = q.person THEN row ELSE persons[i]]
                /\ IF q.user \in DOMAIN users
                   THEN /\ audit_log' = create_audit_log(audit_log, q.user, "update", "Person",
                               q.person, changed_data(q.loaded, q.birth_date, q.death_date,
                                                      q.profession))
                        /\ Respond("person_edit", "redirect")
                   ELSE /\ Respond("person_edit", "exception")
                        /\ UNCHANGED audit_log
    /\ edits' = [edits EXCEPT ![r] = IdleEdit]
    /\ UNCHANGED <<users, next_person_id, parent_child, next_pc_id, partnerships,
                   next_ps_id, proposals, next_proposal_id, reqs,
                   authvars, gen_call>>

\* ParentChild.parent / ParentChild.child, on_delete=CASCADE
ParentChild_on_delete(pc, p) == {e \in pc : e.parent # p /\ e.child # p}

\* a cascade that follows person1 only
Partnership_on_delete_M(ps, p) == {e \in ps : e.person1 # p}

\* Partnership.person1 / Partnership.person2, on_delete=CASCADE
Partnership_on_delete(ps, p) == {e \in ps : e.person1 # p /\ e.person2 # p}

\* person_delete open to everyone who may edit the Person
person_delete_allowed_M(u, p) == can_be_modified_by(p, u)

\* person_delete, can_delete: the admin role or the owner
person_delete_allowed(u, p) == users[u].role = "admin" \/ persons[p].owned_by = u

\* person_delete: the Person row and, by on_delete=CASCADE, every row that
\* references it; a requester who may not delete is sent back to the
\* person's page
PersonDelete(u, p) ==
    /\ Exists(p)
    /\ u \in ActiveUsers
    /\ IF person_delete_allowed(u, p)
       THEN /\ persons' = [i \in DOMAIN persons \ {p} |-> persons[i]]
            /\ parent_child' = ParentChild_on_delete(parent_child, p)
            /\ partnerships' = Partnership_on_delete(partnerships, p)
            /\ proposals' = [i \in {j \in DOMAIN proposals : proposals[j].person # p} |->
                                proposals[i]]
            /\ Respond("person_delete", "redirect")
       ELSE /\ response' = [view |-> "person_delete", outcome |-> "denied", body |-> <<p>>]
            /\ UNCHANGED <<persons, parent_child, partnerships, proposals>>
    /\ UNCHANGED <<users, next_person_id, next_pc_id, next_ps_id, next_proposal_id,
                   audit_log, reqs, edits,
                   authvars, gen_call>>

\* ----------------------------------------------------------- Partnership
\* Partnership.clean: a self-union raises; otherwise the lower id goes first
Partnership_clean_ok(a, b) == a # b

\* Partnership.clean without the swap
Partnership_clean_M(a, b) == <<a, b>>

Partnership_clean(a, b) == IF a > b THEN <<b, a>> ELSE <<a, b>>

\* Partnership.Meta.unique_together on (person1, person2)
Partnership_unique(ps, a, b) == ~\E e \in ps : e.person1 = a /\ e.person2 = b

\* PartnershipForm(request.POST).is_valid(): the form is built without
\* person1, so person2 may be any Person on file, and person1, which is not a
\* field of the form, is left out of the instance's validation
PartnershipForm_is_valid(p, p2) == Exists(p2)

\* add_partnership.  Nothing in the view catches what Partnership.save
\* raises: the ValidationError of Partnership.clean for a self union and the
\* IntegrityError of unique_together for a pair already on file leave the
\* view, and nothing is stored.
AddPartnership(u, p, p2) ==
    /\ Exists(p)
    /\ u \in ActiveUsers
    /\ Len(audit_log) < MaxLog
    /\ IF ~can_be_modified_by(p, u)
       THEN /\ response' = [view |-> "add_partnership", outcome |-> "denied", body |-> <<p>>]
            /\ UNCHANGED <<partnerships, next_ps_id, audit_log>>
       ELSE IF ~PartnershipForm_is_valid(p, p2)
       THEN /\ Respond("add_partnership", "form")
            /\ UNCHANGED <<partnerships, next_ps_id, audit_log>>
       ELSE IF Partnership_clean_ok(p, p2)
               /\ Partnership_unique(partnerships, Partnership_clean(p, p2)[1],
                                     Partnership_clean(p, p2)[2])
       THEN /\ partnerships' = partnerships \cup
                   {[id |-> next_ps_id, person1 |-> Partnership_clean(p, p2)[1],
                     person2 |-> Partnership_clean(p, p2)[2], status |-> "confirmed",
                     created_by |-> u]}
            /\ next_ps_id' = next_ps_id + 1
            /\ audit_log' = create_audit_log(audit_log, u, "create", "Partnership",
                                             next_ps_id, {"form"})
            /\ Respond("add_partnership", "redirect")
       ELSE /\ Respond("add_partnership", "exception")
            /\ UNCHANGED <<partnerships, next_ps_id, audit_log>>
    /\ UNCHANGED <<users, persons, next_person_id, parent_child, next_pc_id,
                   proposals, next_proposal_id, reqs, edits,
                   authvars, gen_call>>

\* ----------------------------------------------------------- ParentChild
\* ParentChildForm.__init__: the child choices leave out the parent and the
\* parent's existing children
ParentChildForm_queryset(p) ==
    {c \in DOMAIN persons : c # p /\ c \notin {e.child : e \in {f \in parent_child : f.parent = p}}}

\* ParentChildForm.clean without the birth-date checks
ParentChildForm_clean_dates_M(pb, cb) == TRUE

\* ParentChildForm.clean, the birth-date part: parent born before the child,
\* and at least ten years before ((child - parent).days / 365.25 >= 10)
ParentChildForm_clean_dates(pb, cb) ==
    (pb # NULL /\ cb # NULL) =>
        /\ ~(pb >= cb)
        /\ ~((cb - pb) * 100 < MinParentAgeYears * DaysPerYearX100)

\* ParentChildForm.clean
ParentChildForm_clean(p, c) ==
    /\ c # p
    /\ ~\E e \in parent_child : e.parent = p /\ e.child = c
    /\ ParentChildForm_clean_dates(persons[p].birth_date, persons[c].birth_date)

\* ParentChild.clean: a person is not their own parent.  Its birth-date check
\* sits in a try whose bare except swallows the ValidationError it raises, so
\* it never rejects.
ParentChild_clean_ok(p, c) == p # c

\* no unique_together on (parent, child)
ParentChild_unique_M(pc, p, c) == TRUE

\* ParentChild.Meta.unique_together on (parent, child)
ParentChild_unique(pc, p, c) == ~\E e \in pc : e.parent = p /\ e.child = c

\* is_valid() that tests the choice of the child only
ParentChildForm_is_valid_M(p, c) == c \in ParentChildForm_queryset(p)

\* ParentChildForm(request.POST, parent=parent).is_valid(): the child is one
\* of the form's choices and clean() accepts the pair
ParentChildForm_is_valid(p, c) ==
    /\ c \in ParentChildForm_queryset(p)
    /\ ParentChildForm_clean(p, c)

\* form.errors of an invalid ParentChildForm: the child field's invalid
\* choice (clean() then finds no child and checks nothing), or else the
\* ValidationError of clean()
ParentChildForm_errors(p, c) ==
    IF c \notin ParentChildForm_queryset(p) THEN <<"invalid_choice">>
    ELSE IF ~ParentChildForm_clean_dates(persons[p].birth_date, persons[c].birth_date)
    THEN <<"birth_dates">>
    ELSE <<"non_field">>

\* add_child up to form.is_valid(): the parent is loaded and the form
\* validated; an invalid form is shown again with its errors and the request
\* is over.  A request is admitted only while the audit log has room for its
\* entry.
AddChildValidate(u, r, p, c) ==
    /\ u \in ActiveUsers
    /\ reqs[r].pc = "idle"
    /\ Len(audit_log) + Cardinality({k \in ReqIds : reqs[k].pc = "validated"}) < MaxLog
    /\ Exists(p)
    /\ IF ParentChildForm_is_valid(p, c)
       THEN /\ reqs' = [reqs EXCEPT ![r] = [pc |-> "validated", user |-> u,
                                            parent |-> p, child |-> c]]
            /\ UNCHANGED response
       ELSE /\ response' = [view |-> "add_child", outcome |-> "form",
                            body |-> ParentChildForm_errors(p, c)]
            /\ UNCHANGED reqs
    /\ UNCHANGED <<users, persons, next_person_id, parent_child, next_pc_id, partnerships,
                   next_ps_id, proposals, next_proposal_id, audit_log, edits,
                   authvars, gen_call>>

\* add_child from transaction.atomic() on: ParentChild.save and the audit row
\* commit together.  A ValidationError of ParentChild.clean becomes a form
\* error; any other exception (the IntegrityError of a duplicate pair, or of
\* a referenced Person or User deleted meanwhile) becomes messages.error and
\* a redirect.  Either way the block is rolled back.
AddChildSave(r) ==
    /\ reqs[r].pc = "validated"
    /\ Len(audit_log) < MaxLog
    /\ LET q == reqs[r] IN
       IF ~ParentChild_clean_ok(q.parent, q.child)
       THEN /\ Respond("add_child", "form")
            /\ UNCHANGED <<parent_child, next_pc_id, audit_log>>
       ELSE IF /\ ParentChild_unique(parent_child, q.parent, q.child)
               /\ Exists(q.parent) /\ Exists(q.child) /\ q.user \in DOMAIN users
       THEN /\ parent_child' = parent_child \cup
                   {[id |-> next_pc_id, parent |-> q.parent, child |-> q.child,
                     status |-> "confirmed", created_by |-> q.user]}
            /\ next_pc_id' = next_pc_id + 1
            /\ audit_log' = create_audit_log(audit_log, q.user, "create", "ParentChild",
                                             next_pc_id, {"form"})
            /\ Respond("add_child", "redirect")
       ELSE /\ Respond("add_child", "flash_error")
            /\ UNCHANGED <<parent_child, next_pc_id, audit_log>>
    /\ reqs' = [reqs EXCEPT ![r] = IdleReq]
    /\ UNCHANGED <<users, persons, next_person_id, partnerships, next_ps_id,
                   proposals, next_proposal_id, edits,
                   authvars, gen_call>>

\* ------------------------------------------------- ModificationProposal
\* DateField.to_python on a text value: an ISO date parses, anything else raises
IsDateText(s) == s \in {"1950-01-01", "1960-01-01", "1975-01-01"}

ParseDate(s) ==
    CASE s = "1950-01-01" -> DateOf.y1950
      [] s = "1960-01-01" -> DateOf.y1960
      [] s = "1975-01-01" -> DateOf.y1975
      [] OTHER -> NULL

\* str(value) if value else '' for the proposal's old_value
StrOrEmpty(v) ==
    CASE v = DateOf.y1950 -> "1950-01-01"
      [] v = DateOf.y1960 -> "1960-01-01"
      [] v = DateOf.y1975 -> "1975-01-01"
      [] OTHER -> ""

\* getattr(person, field_name, '')
getattr(row, field) ==
    CASE field = "birth_date" -> row.birth_date
      [] field = "death_date" -> row.death_date
      [] OTHER -> row.profession

\* propose_modification
ProposeModification(u, p, field, new_value) ==
    /\ u \in ActiveUsers
    /\ Exists(p)
    /\ next_proposal_id <= MaxProposals
    /\ Len(audit_log) < MaxLog
    /\ proposals' = [i \in DOMAIN proposals \cup {next_proposal_id} |->
                        IF i = next_proposal_id
                        THEN [person |-> p, proposed_by |-> u, field_name |-> field,
                              old_value |-> IF field = "profession" THEN persons[p].profession
                                            ELSE StrOrEmpty(getattr(persons[p], field)),
                              new_value |-> new_value, status |-> "pending",
                              reviewed_by |-> NULL]
                        ELSE proposals[i]]
    /\ audit_log' = create_audit_log(audit_log, u, "create", "ModificationProposal",
                                     next_proposal_id, {"form"})
    /\ next_proposal_id' = next_proposal_id + 1
    /\ Respond("propose_modification", "redirect")
    /\ UNCHANGED <<users, persons, next_person_id, parent_child, next_pc_id,
                   partnerships, next_ps_id, reqs, edits,
                   authvars, gen_call>>

\* an approval that leaves the Person as it was
setattr_M(row, field, text) == row

\* setattr(proposal.person, field_name, new_value) as Person.save stores it
setattr(row, field, text) ==
    CASE field = "birth_date" -> [row EXCEPT !.birth_date = ParseDate(text)]
      [] field = "death_date" -> [row EXCEPT !.death_date = ParseDate(text)]
      [] OTHER -> [row EXCEPT !.profession = text]

\* Person.save raises on a date field whose text is no date
SaveRaises(field, text) == field \in {"birth_date", "death_date"} /\ ~IsDateText(text)

\* review_proposal open to every logged-in user
review_proposal_allowed_M(u) == u \in ActiveUsers

\* review_proposal: request.user.role != 'admin' is turned away
review_proposal_allowed(u) == users[u].role = "admin"

\* review_proposal, action == 'approve': the new value is set on the Person
\* and saved, then the proposal.  A Person.save that raises leaves the view
\* before anything is written.
ReviewApprove(u, i) ==
    /\ u \in ActiveUsers
    /\ i \in DOMAIN proposals
    /\ Len(audit_log) < MaxLog
    /\ LET pr == proposals[i] IN
       IF ~review_proposal_allowed(u)
       THEN /\ Respond("review_proposal", "denied")
            /\ UNCHANGED <<persons, proposals, audit_log>>
       ELSE IF SaveRaises(pr.field_name, pr.new_value)
       THEN /\ Respond("review_proposal", "exception")
            /\ UNCHANGED <<persons, proposals, audit_log>>
       ELSE /\ persons' = [persons EXCEPT ![pr.person] =
                               Person_save(setattr(@, pr.field_name, pr.new_value))]
            /\ proposals' = [proposals EXCEPT ![i].status = "approved",
                                              ![i].reviewed_by = u]
            /\ audit_log' = create_audit_log(audit_log, u, "approve",
                                             "ModificationProposal", i, {"approved"})
            /\ Respond("review_proposal", "redirect")
    /\ UNCHANGED <<users, next_person_id, parent_child, next_pc_id, partnerships,
                   next_ps_id, next_proposal_id, reqs, edits,
                   authvars, gen_call>>

\* review_proposal, action == 'reject'
ReviewReject(u, i) ==
    /\ u \in ActiveUsers
    /\ i \in DOMAIN proposals
    /\ Len(audit_log) < MaxLog
    /\ IF ~review_proposal_allowed(u)
       THEN /\ Respond("review_proposal", "denied")
            /\ UNCHANGED <<proposals, audit_log>>
       ELSE /\ proposals' = [proposals EXCEPT ![i].status = "rejected",
                                              ![i].reviewed_by = u]
            /\ audit_log' = create_audit_log(audit_log, u, "reject",
                                             "ModificationProposal", i, {"rejected"})
            /\ Respond("review_proposal", "redirect")
    /\ UNCHANGED <<users, persons, next_person_id, parent_child, next_pc_id,
                   partnerships, next_ps_id, next_proposal_id, reqs, edits,
                   authvars, gen_call>>

\* ------------------------------------------------------------ GEDCOM export
\* One line of the document: level, tag, and the id or date (ref) or text
\* (txt) it carries.  The empty line that closes a block has an empty tag.
Line(lvl, tag, ref, txt) == [lvl |-> lvl, tag |-> tag, ref |-> ref, txt |-> txt]

BlankLine == Line(NULL, "", NULL, "")

\* An exception raised inside generate_gedcom_export (a failed query, a value
\* that cannot be formatted): while the Person with this id is emitted
\* ("person"), while the Partnership with this id is emitted ("family"), or
\* while the children of that Partnership are collected ("children").
NoFault == [at |-> "none", id |-> NULL]

ExportFaults ==
    {NoFault} \cup {[at |-> "person", id |-> i] : i \in PersonIds}
              \cup {[at |-> a, id |-> i] : a \in {"family", "children"}, i \in 1..MaxLog}

\* ids in ascending order (order_by('id'); a Python set of small ints)
RECURSIVE IdsInOrder(_)
IdsInOrder(ids) ==
    IF ids = {} THEN <<>>
    ELSE LET first == CHOOSE i \in ids : \A j \in ids : i <= j
         IN  <<first>> \o IdsInOrder(ids \ {first})

RECURSIVE Concat(_)
Concat(blocks) == IF blocks = <<>> THEN <<>> ELSE Head(blocks) \o Concat(Tail(blocks))

\* the GEDCOM header
gedcom_header ==
    <<Line(0, "HEAD", NULL, ""), Line(1, "SOUR", NULL, "Famille KANYAMUKENGE"),
      Line(2, "NAME", NULL, "Systeme Genealogique KANYAMUKENGE"),
      Line(2, "DATE", DateOf.today, ""), Line(1, "CHAR", NULL, "UTF-8"),
      Line(1, "GEDC", NULL, ""), Line(2, "VERS", NULL, "5.5.1"),
      Line(2, "FORM", NULL, "LINEAGE-LINKED"), BlankLine>>

\* the minimal document of the except branch, which ends in its own trailer
gedcom_minimal ==
    <<Line(0, "HEAD", NULL, ""), Line(1, "SOUR", NULL, "Famille KANYAMUKENGE"),
      Line(2, "DATE", DateOf.today, ""), Line(1, "CHAR", NULL, "UTF-8"),
      Line(0, "TRLR", NULL, "")>>

\* an individual record that is emitted only for a Person with a birth date
gedcom_individual_M(row, p) ==
    IF row.birth_date = NULL THEN <<>>
    ELSE <<Line(0, "INDI", p, ""), Line(1, "NAME", p, ""), BlankLine>>

\* the record of one Person: INDI, NAME, then SEX, BIRT, DEAT and OCCU for the
\* fields that are set
gedcom_individual(row, p) ==
    <<Line(0, "INDI", p, ""), Line(1, "NAME", p, "")>>
    \o (IF row.gender # "" THEN <<Line(1, "SEX", NULL, row.gender)>> ELSE <<>>)
    \o (IF row.birth_date # NULL
        THEN <<Line(1, "BIRT", NULL, ""), Line(2, "DATE", row.birth_date, "")>> ELSE <<>>)
    \o (IF row.death_date # NULL
        THEN <<Line(1, "DEAT", NULL, ""), Line(2, "DATE", row.death_date, "")>> ELSE <<>>)
    \o (IF row.profession # "" THEN <<Line(1, "OCCU", NULL, row.profession)>> ELSE <<>>)
    \o <<BlankLine>>

\* the children of a family: every ParentChild row whose parent is one of the
\* two partners, whatever its status
gedcom_family_children(pc, ps_row) ==
    {e.child : e \in {f \in pc : f.parent \in {ps_row.person1, ps_row.person2}}}

\* the block of one confirmed Partnership, numbered family_id; an exception
\* while its children are collected is caught and the block goes without them
gedcom_family(pc, ps_row, family_id, fault) ==
    <<Line(0, "FAM", family_id, ""), Line(1, "HUSB", ps_row.person1, ""),
      Line(1, "WIFE", ps_row.person2, "")>>
    \o (IF fault = [at |-> "children", id |-> ps_row.id] THEN <<>>
        ELSE LET kids == IdsInOrder(gedcom_family_children(pc, ps_row))
             IN  [k \in 1..Len(kids) |-> Line(1, "CHIL", kids[k], "")])
    \o <<BlankLine>>

\* the loop over ParentChild.objects.all(): a family block for every child
\* that has exactly one parent row
RECURSIVE gedcom_single_parents(_, _, _, _, _)
gedcom_single_parents(ps, pc, relations, family_id, processed) ==
    IF relations = <<>> THEN <<>>
    ELSE LET relation == Head(relations)
             parents == {e.parent : e \in {f \in pc : f.child = relation.child}}
         IN  IF relation.child \notin processed /\ Cardinality(parents) = 1
             THEN <<Line(0, "FAM", family_id, ""),
                    Line(1, IF ps[relation.parent].gender = "M" THEN "HUSB" ELSE "WIFE",
                         relation.parent, ""),
                    Line(1, "CHIL", relation.child, ""), BlankLine>>
                  \o gedcom_single_parents(ps, pc, Tail(relations), family_id + 1,
                                           processed \cup {relation.child})
             ELSE gedcom_single_parents(ps, pc, Tail(relations), family_id, processed)

\* generate_gedcom_export: header, individuals by id, families, single-parent
\* families, trailer; an exception inside the try replaces everything by the
\* minimal document, and the trailer is appended after that too.  lines is
\* the document returned, printed what the two except branches print.
generate_gedcom_export(ps, pships, pc, fault) ==
    LET people == IdsInOrder(DOMAIN ps)
        confirmed == InPkOrder({e \in pships : e.status = "confirmed"})
        raised == \/ fault.at = "person" /\ fault.id \in DOMAIN ps
                  \/ fault.at = "family" /\ \E k \in 1..Len(confirmed) : confirmed[k].id = fault.id
        caught == fault.at = "children" /\ \E k \in 1..Len(confirmed) : confirmed[k].id = fault.id
        gedcom_lines ==
            gedcom_header
            \o Concat([k \in 1..Len(people) |-> gedcom_individual(ps[people[k]], people[k])])
            \o Concat([k \in 1..Len(confirmed) |-> gedcom_family(pc, confirmed[k], k, fault)])
            \o gedcom_single_parents(ps, pc, InPkOrder(pc), Len(confirmed) + 1, {})
    IN  [lines |-> (IF raised THEN gedcom_minimal ELSE gedcom_lines)
                      \o <<Line(0, "TRLR", NULL, "")>>,
         printed |-> IF raised THEN <<"Error generating GEDCOM">>
                     ELSE IF caught THEN <<"Error processing children">> ELSE <<>>]

\* export_gedcom: the document is generated and sent, and the download
\* leaves an audit row
ExportGedcom(u, fault) ==
    /\ u \in ActiveUsers
    /\ users[u].can_export_data \/ users[u].role = "admin"
    /\ Len(audit_log) < MaxLog
    /\ audit_log' = create_audit_log(audit_log, u, "export", "GEDCOM", NULL, {"gedcom"})
    /\ response' = [view |-> "export_gedcom", outcome |-> "file",
                    body |-> generate_gedcom_export(persons, partnerships, parent_child, fault)]
    /\ UNCHANGED <<users, persons, next_person_id, parent_child, next_pc_id, partnerships,
                   next_ps_id, proposals, next_proposal_id, reqs, edits,
                   authvars, gen_call>>

\* a call of validate_family_tree; it reads the tables and writes nothing
ValidateFamilyTree(fault) ==
    /\ response' = [view |-> "validate_family_tree", outcome |-> "result",
                    body |-> validate_family_tree(persons, parent_child, fault)]
    /\ UNCHANGED <<users, persons, next_person_id, parent_child, next_pc_id, partnerships,
                   next_ps_id, proposals, next_proposal_id, audit_log, reqs, edits,
                   authvars, gen_call>>

\* api_family_tree_data: 403 unless the user can view the Person, else the
\* tree data as JSON; the view takes anonymous requests too
ApiFamilyTreeData(u, p) ==
    /\ Exists(p)
    /\ u # NULL => u \in ActiveUsers
    /\ response' =
          IF ~can_view_person(u, persons[p])
          THEN [view |-> "api_family_tree_data", outcome |-> "denied", body |-> <<>>]
          ELSE [view |-> "api_family_tree_data", outcome |-> "json",
                body |-> get_family_tree_data(persons, parent_child, partnerships, p, u)]
    /\ UNCHANGED <<users, persons, next_person_id, parent_child, next_pc_id, partnerships,
                   next_ps_id, proposals, next_proposal_id, audit_log, reqs, edits,
                   authvars, gen_call>>

\* ------------------------------------------------------------------- login
\* OTPToken.is_valid without the expiry test
OTPToken_is_valid_M(o) == ~o.is_used

\* OTPToken.is_valid: not used and timezone.now() < expires_at
OTPToken_is_valid(o) == ~o.is_used /\ ~o.expired

\* OTPToken.objects.create(user=user): generate_token draws six random
\* digits, and expires_at lies OTP_EXPIRE_MINUTES ahead
OTPToken_create(u, token) ==
    [id |-> next_otp_id, user |-> u, token |-> token, expired |-> FALSE, is_used |-> FALSE]

\* OTPToken.objects.filter(user=user, token=token, is_used=False)
OTPToken_unused(u, token) ==
    {o \in otp_tokens : o.user = u /\ o.token = token /\ ~o.is_used}

\* login(request, user) on the session data as the view left them: the
\* session keeps its data and now carries the user
login(s, data, u, otp) ==
    /\ sessions' = [sessions EXCEPT ![s] = [data EXCEPT !.user = u]]
    /\ logins' = Append(logins, [session |-> s, user |-> u, otp |-> otp])

\* login_view with a valid LoginForm for user u: an admin gets an OTP by
\* email and the session remembers otp_user_id; when the email fails the
\* token is deleted again and the form is shown; anyone else is logged in
LoginView(s, u, token, email_sent) ==
    /\ sessions[s].user = NULL
    /\ sessions[s].pc = "idle"
    /\ u \in ActiveUsers
    /\ IF users[u].role = "admin"
       THEN /\ next_otp_id <= MaxTokens
            /\ next_otp_id' = next_otp_id + 1
            /\ UNCHANGED logins
            /\ IF email_sent
               THEN /\ otp_tokens' = otp_tokens \cup {OTPToken_create(u, token)}
                    /\ sessions' = [sessions EXCEPT ![s].otp_user_id = u]
                    /\ Respond("login_view", "redirect")
               ELSE /\ Respond("login_view", "form")
                    /\ UNCHANGED <<otp_tokens, sessions>>
       ELSE /\ login(s, sessions[s], u, NULL)
            /\ Respond("login_view", "redirect")
            /\ UNCHANGED <<otp_tokens, next_otp_id>>
    /\ UNCHANGED <<users, persons, next_person_id, parent_child, next_pc_id, partnerships,
                   next_ps_id, proposals, next_proposal_id, audit_log, reqs, edits, gen_call>>

\* otp_verify up to `if otp.is_valid()`: the form and then the view look the
\* token up among the unused tokens of the session's otp_user_id.  None is a
\* form error, several raise MultipleObjectsReturned, an expired one is a
\* form error; a valid one lets the request go on.
OtpVerifyCheck(s, token) ==
    /\ sessions[s].pc = "idle"
    /\ sessions[s].otp_user_id \in DOMAIN users
    /\ LET found == OTPToken_unused(sessions[s].otp_user_id, token)
       IN  IF found = {}
           THEN Respond("otp_verify", "form") /\ UNCHANGED sessions
           ELSE IF Cardinality(found) > 1
           THEN Respond("otp_verify", "exception") /\ UNCHANGED sessions
           ELSE LET otp == CHOOSE o \in found : TRUE
                IN  IF ~OTPToken_is_valid(otp)
                    THEN Respond("otp_verify", "form") /\ UNCHANGED sessions
                    ELSE /\ sessions' = [sessions EXCEPT ![s].pc = "checked",
                                                           ![s].otp = otp.id]
                         /\ UNCHANGED response
    /\ UNCHANGED <<users, persons, next_person_id, parent_child, next_pc_id, partnerships,
                   next_ps_id, proposals, next_proposal_id, audit_log, reqs, edits, gen_call,
                   otp_tokens, next_otp_id, logins>>

\* otp_verify from `otp.is_used = True` on: the token is saved as used,
\* otp_user_id leaves the session and the user is logged in
OtpVerifyCommit(s) ==
    /\ sessions[s].pc = "checked"
    /\ otp_tokens' = {IF o.id = sessions[s].otp THEN [o EXCEPT !.is_used = TRUE] ELSE o :
                         o \in otp_tokens}
    /\ login(s, [IdleSession EXCEPT !.user = sessions[s].user],
             sessions[s].otp_user_id, sessions[s].otp)
    /\ Respond("otp_verify", "redirect")
    /\ UNCHANGED <<users, persons, next_person_id, parent_child, next_pc_id, partnerships,
                   next_ps_id, proposals, next_proposal_id, audit_log, reqs, edits, gen_call,
                   next_otp_id>>

\* resend_otp: every unused token of the user is marked used, then a new
\* one is created and mailed, and deleted again when the email fails
ResendOtp(s, token, email_sent) ==
    /\ sessions[s].otp_user_id \in DOMAIN users
    /\ next_otp_id <= MaxTokens
    /\ LET u == sessions[s].otp_user_id
           old == {IF o.user = u THEN [o EXCEPT !.is_used = TRUE] ELSE o : o \in otp_tokens}
       IN  otp_tokens' = IF email_sent THEN old \cup {OTPToken_create(u, token)} ELSE old
    /\ next_otp_id' = next_otp_id + 1
    /\ Respond("resend_otp", "redirect")
    /\ UNCHANGED <<users, persons, next_person_id, parent_child, next_pc_id, partnerships,
                   next_ps_id, proposals, next_proposal_id, audit_log, reqs, edits, gen_call,
                   sessions, logins>>

\* time passes beyond the expires_at of a token
TokenExpires(i) ==
    /\ \E o \in otp_tokens : o.id = i /\ ~o.expired
    /\ otp_tokens' = {IF o.id = i THEN [o EXCEPT !.expired = TRUE] ELSE o : o \in otp_tokens}
    /\ UNCHANGED <<users, persons, next_person_id, parent_child, next_pc_id, partnerships,
                   next_ps_id, proposals, next_proposal_id, audit_log, reqs, edits, gen_call,
                   response, next_otp_id, sessions, logins>>

\* ------------------------------------------------------------------- users

\* toggle_user
ToggleUser(u, t) ==
    /\ u \in ActiveUsers
    /\ users[u].role = "admin"
    /\ t \in DOMAIN users
    /\ t # u
    /\ Len(audit_log) < MaxLog
    /\ users' = [users EXCEPT ![t].is_active = ~@]
    /\ audit_log' = create_audit_log(audit_log, u,
                        IF users[t].is_active THEN "deactivate" ELSE "activate",
                        "User", t, {"toggle"})
    /\ Respond("toggle_user", "redirect")
    /\ UNCHANGED <<persons, next_person_id, parent_child, next_pc_id, partnerships,
                   next_ps_id, proposals, next_proposal_id, reqs, edits,
                   authvars, gen_call>>

\* edit_user: role and permission flags; an audit row only when something changed
EditUser(u, t, new_role, export) ==
    /\ u \in ActiveUsers
    /\ users[u].role = "admin"
    /\ t \in DOMAIN users
    /\ Len(audit_log) < MaxLog
    /\ users' = [users EXCEPT ![t].role = new_role, ![t].can_export_data = export]
    /\ audit_log' = IF users'[t] # users[t]
                     THEN create_audit_log(audit_log, u, "update", "User", t, {"changes"})
                     ELSE audit_log
    /\ Respond("edit_user", "redirect")
    /\ UNCHANGED <<persons, next_person_id, parent_child, next_pc_id, partnerships,
                   next_ps_id, proposals, next_proposal_id, reqs, edits,
                   authvars, gen_call>>

\* on_delete=SET_NULL of a foreign key to User
SET_NULL(v, t) == IF v = t THEN NULL ELSE v

\* AuditLog.user with on_delete=CASCADE
AuditLog_on_user_delete_M(log, t) == SelectSeq(log, LAMBDA e : e.user # t)

\* AuditLog.user, on_delete=SET_NULL
AuditLog_on_user_delete(log, t) ==
    [k \in DOMAIN log |-> [log[k] EXCEPT !.user = SET_NULL(@, t)]]

\* delete_user: the audit row is written first, then user.delete() nulls or
\* cascades every reference to the user
DeleteUser(u, t) ==
    /\ u \in ActiveUsers
    /\ users[u].role = "admin"
    /\ t \in DOMAIN users
    /\ t # u
    /\ Len(audit_log) < MaxLog
    /\ users' = [k \in DOMAIN users \ {t} |-> users[k]]
    /\ audit_log' = AuditLog_on_user_delete(
                        create_audit_log(audit_log, u, "delete", "User", t, {"deleted_user"}), t)
    /\ persons' = [k \in DOMAIN persons |->
                      [persons[k] EXCEPT !.created_by = SET_NULL(@, t),
                                         !.owned_by = SET_NULL(@, t),
                                         !.user_account = SET_NULL(@, t)]]
    /\ parent_child' = {[e EXCEPT !.created_by = SET_NULL(@, t)] : e \in parent_child}
    /\ partnerships' = {[e EXCEPT !.created_by = SET_NULL(@, t)] : e \in partnerships}
    /\ proposals' = [k \in {j \in DOMAIN proposals : proposals[j].proposed_by # t} |->
                        [proposals[k] EXCEPT !.reviewed_by = SET_NULL(@, t)]]
    /\ otp_tokens' = {o \in otp_tokens : o.user # t}
    /\ Respond("delete_user", "redirect")
    /\ UNCHANGED <<next_person_id, next_pc_id, next_ps_id, next_proposal_id, reqs, edits,
                   next_otp_id, sessions, logins, gen_call>>

\* ---------------------------------------------------------- specifications
Roles == {"admin", "member", "visitor"}

InitUsers ==
    [u \in UserIds |-> [role |-> IF u = 1 THEN "admin" ELSE "member",
                        is_active |-> TRUE, can_export_data |-> FALSE]]

\* a Person row as person_create stores it for a form with only a birth date
InitPerson(birth, u) ==
    [gender |-> "M", birth_date |-> birth, death_date |-> NULL, is_deceased |-> FALSE,
     profession |-> "", created_by |-> u, owned_by |-> u, user_account |-> NULL,
     visibility |-> "family"]

InitEmptyTables ==
    /\ parent_child = {}
    /\ next_pc_id = 1
    /\ partnerships = {}
    /\ next_ps_id = 1
    /\ proposals = <<>>
    /\ next_proposal_id = 1
    /\ audit_log = <<>>
    /\ reqs = [r \in ReqIds |-> IdleReq]
    /\ edits = [r \in ReqIds |-> IdleEdit]
    /\ response = [view |-> "none", outcome |-> "none", body |-> <<>>]
    /\ otp_tokens = {}
    /\ next_otp_id = 1
    /\ sessions = [s \in SessionIds |-> IdleSession]
    /\ logins = <<>>
    /\ gen_call = IdleCall

\* The relationship graph: MaxPersons people are on file, either all without
\* a birth date, or the first born 1950, the second 1975, the third 1960 and
\* the others without one; edges are added by add_child and add_partnership and removed
\* by person_delete.
InitFamilies ==
    {[i \in PersonIds |-> NULL],
     [i \in PersonIds |-> IF i = 1 THEN DateOf.y1950
                          ELSE IF i = 2 THEN DateOf.y1975
                          ELSE IF i = 3 THEN DateOf.y1960 ELSE NULL]}

Init ==
    /\ users = InitUsers
    /\ \E births \in InitFamilies : persons = [i \in PersonIds |-> InitPerson(births[i], 1)]
    /\ next_person_id = MaxPersons + 1
    /\ InitEmptyTables

Next ==
    \/ \E u \in {1}, r \in ReqIds, p \in PersonIds, c \in PersonIds : AddChildValidate(u, r, p, c)
    \/ \E r \in ReqIds : AddChildSave(r)
    \/ \E u \in {1}, p \in PersonIds, p2 \in PersonIds : AddPartnership(u, p, p2)
    \/ \E u \in {1}, p \in PersonIds : PersonDelete(u, p)

Spec == Init /\ [][Next]_vars

\* Vital data: all but one of MaxPersons people are on file, the first born
\* 1950 and the others 1975, and one more can be created; births, deaths and
\* professions change through person_create, person_edit and approved
\* proposals while add_child links people.
VitalBirths == {NULL, DateOf.y1950, DateOf.y1975, DateOf.future}
VitalDeaths == {NULL, DateOf.y1960, DateOf.future}

InitVital ==
    /\ users = InitUsers
    /\ persons = [i \in 1..(MaxPersons - 1) |->
                     InitPerson(IF i = 1 THEN DateOf.y1950 ELSE DateOf.y1975, 1)]
    /\ next_person_id = MaxPersons
    /\ InitEmptyTables

NextVital ==
    \/ \E b \in VitalBirths, d \in VitalDeaths : PersonCreate(1, b, d, "")
    \/ \E p \in PersonIds, b \in VitalBirths, d \in VitalDeaths : PersonEdit(1, p, b, d, "")
    \/ \E p \in PersonIds, f \in FieldChoices, t \in TextValues : ProposeModification(1, p, f, t)
    \/ \E i \in 1..MaxProposals : ReviewApprove(1, i)
    \/ \E i \in 1..MaxProposals : ReviewReject(1, i)
    \/ \E r \in ReqIds, p \in PersonIds, c \in PersonIds : AddChildValidate(1, r, p, c)
    \/ \E r \in ReqIds : AddChildSave(r)

SpecVital == InitVital /\ [][NextVital]_vars

\* The audit trail: every handler that writes an AuditLog row, and the user
\* administration that can delete the user a row names.  One person is on
\* file, owned by the member.
InitAudit ==
    /\ users = InitUsers
    /\ persons = [i \in {1} |-> InitPerson(NULL, 2)]
    /\ next_person_id = 2
    /\ InitEmptyTables

NextAudit ==
    \/ \E u \in UserIds : PersonCreate(u, NULL, NULL, "")
    \/ \E u \in UserIds, p \in PersonIds : PersonEdit(u, p, DateOf.y1950, NULL, "")
    \/ \E u \in UserIds, p \in PersonIds : PersonDelete(u, p)
    \/ \E u \in UserIds, p \in PersonIds, p2 \in PersonIds : AddPartnership(u, p, p2)
    \/ \E u \in UserIds, r \in ReqIds, p \in PersonIds, c \in PersonIds :
          AddChildValidate(u, r, p, c)
    \/ \E r \in ReqIds : AddChildSave(r)
    \/ \E u \in UserIds, p \in PersonIds : ProposeModification(u, p, "profession", "farmer")
    \/ \E u \in UserIds, i \in 1..MaxProposals : ReviewApprove(u, i)
    \/ \E u \in UserIds, i \in 1..MaxProposals : ReviewReject(u, i)
    \/ \E u \in UserIds : ExportGedcom(u, NoFault)
    \/ \E u \in UserIds, t \in UserIds : ToggleUser(u, t)
    \/ \E u \in UserIds, t \in UserIds, role \in Roles, export \in BOOLEAN :
          EditUser(u, t, role, export)
    \/ \E u \in UserIds, t \in UserIds : DeleteUser(u, t)

SpecAudit == InitAudit /\ [][NextAudit]_vars

\* Review of proposals: one person is on file, born 1950 and owned by the
\* member; both users propose changes and ask to review them, the person is
\* edited and deleted, and the admin changes roles and deletes the member.
InitReview ==
    /\ users = InitUsers
    /\ persons = [i \in {1} |-> InitPerson(DateOf.y1950, 2)]
    /\ next_person_id = 2
    /\ InitEmptyTables

NextReview ==
    \/ \E u \in UserIds, p \in PersonIds, f \in FieldChoices, t \in TextValues :
          ProposeModification(u, p, f, t)
    \/ \E u \in UserIds, i \in 1..MaxProposals : ReviewApprove(u, i)
    \/ \E u \in UserIds, i \in 1..MaxProposals : ReviewReject(u, i)
    \/ \E u \in UserIds, p \in PersonIds : PersonEdit(u, p, NULL, DateOf.y1960, "")
    \/ \E u \in UserIds, p \in PersonIds : PersonDelete(u, p)
    \/ \E u \in UserIds, t \in UserIds, role \in Roles : EditUser(u, t, role, FALSE)
    \/ \E u \in UserIds, t \in UserIds : DeleteUser(u, t)

SpecReview == InitReview /\ [][NextReview]_vars

\* Concurrent edits: one person is on file, born 1950 and owned by the
\* member; the admin and the member edit it in requests that interleave,
\* while the person and the member can be deleted.
EditBirths == {DateOf.y1950, DateOf.y1975}
EditDeaths == {NULL, DateOf.y1960}

InitEdit ==
    /\ users = InitUsers
    /\ persons = [i \in {1} |-> InitPerson(DateOf.y1950, 2)]
    /\ next_person_id = 2
    /\ InitEmptyTables

NextEdit ==
    \/ \E u \in UserIds, r \in ReqIds, p \in PersonIds, b \in EditBirths, d \in EditDeaths,
          prof \in Professions : PersonEditLoad(u, r, p, b, d, prof)
    \/ \E r \in ReqIds : PersonEditSave(r)
    \/ \E u \in UserIds, p \in PersonIds : PersonDelete(u, p)
    \/ \E u \in UserIds, t \in UserIds : DeleteUser(u, t)

SpecEdit == InitEdit /\ [][NextEdit]_vars

\* Export: MaxPersons people without birth dates are on file; the admin links
\* and deletes them and downloads the GEDCOM document, with or without an
\* exception inside generate_gedcom_export.
InitExport ==
    /\ users = InitUsers
    /\ persons = [i \in PersonIds |-> InitPerson(NULL, 1)]
    /\ next_person_id = MaxPersons + 1
    /\ InitEmptyTables

NextExport ==
    \/ \E r \in ReqIds, p \in PersonIds, c \in PersonIds : AddChildValidate(1, r, p, c)
    \/ \E r \in ReqIds : AddChildSave(r)
    \/ \E p \in PersonIds, p2 \in PersonIds : AddPartnership(1, p, p2)
    \/ \E p \in PersonIds : PersonDelete(1, p)
    \/ \E fault \in ExportFaults : ExportGedcom(1, fault)

SpecExport == InitExport /\ [][NextExport]_vars

\* Permissions: the admin (user 1) and a member (user 2); the admin owns and
\* created every Person but the second, of which the member is either the
\* owner, or the creator, or the linked account.  Both users add children
\* and delete people, and the member adds partnerships.
MemberLinks == {"owned_by", "created_by", "user_account"}

InitPermissions ==
    /\ users = InitUsers
    /\ \E link \in MemberLinks :
          persons = [i \in PersonIds |->
                        IF i # 2 THEN InitPerson(NULL, 1)
                        ELSE [InitPerson(NULL, 1) EXCEPT ![link] = 2]]
    /\ next_person_id = MaxPersons + 1
    /\ InitEmptyTables

NextPermissions ==
    \/ \E u \in UserIds, p \in PersonIds, c \in PersonIds : AddChildValidate(u, 1, p, c)
    \/ AddChildSave(1)
    \/ \E p \in PersonIds, p2 \in PersonIds : AddPartnership(2, p, p2)
    \/ \E u \in UserIds, p \in PersonIds : PersonDelete(u, p)

SpecPermissions == InitPermissions /\ [][NextPermissions]_vars

\* Tree data: the first Person is public, the last one private, with or
\* without the member as linked account, and the others are family-visible;
\* the admin links them, and the admin, the member and anonymous visitors
\* fetch the tree data.
InitTree ==
    /\ users = InitUsers
    /\ \E account \in {NULL, 2} :
          persons = [i \in PersonIds |->
                        IF i = 1 THEN [InitPerson(NULL, 1) EXCEPT !.visibility = "public"]
                        ELSE IF i = MaxPersons
                        THEN [InitPerson(NULL, 1) EXCEPT !.visibility = "private",
                                                         !.user_account = account]
                        ELSE InitPerson(NULL, 1)]
    /\ next_person_id = MaxPersons + 1
    /\ InitEmptyTables

NextTree ==
    \/ \E p \in PersonIds, c \in PersonIds : AddChildValidate(1, 1, p, c)
    \/ AddChildSave(1)
    \/ \E p \in PersonIds, p2 \in PersonIds : AddPartnership(1, p, p2)
    \/ \E u \in UserIds \cup {NULL}, p \in PersonIds : ApiFamilyTreeData(u, p)

SpecTree == InitTree /\ [][NextTree]_vars

\* Login: the admin and the member log in from two browser sessions with
\* their passwords; the admin's OTPs are mailed, resent, verified and expire.
InitLogin ==
    /\ users = InitUsers
    /\ persons = <<>>
    /\ next_person_id = 1
    /\ InitEmptyTables

NextLogin ==
    \/ \E s \in SessionIds, u \in UserIds, token \in TokenValues, email_sent \in BOOLEAN :
          LoginView(s, u, token, email_sent)
    \/ \E s \in SessionIds, token \in TokenValues : OtpVerifyCheck(s, token)
    \/ \E s \in SessionIds : OtpVerifyCommit(s)
    \/ \E s \in SessionIds, token \in TokenValues, email_sent \in BOOLEAN :
          ResendOtp(s, token, email_sent)
    \/ \E i \in 1..MaxTokens : TokenExpires(i)

SpecLogin == InitLogin /\ [][NextLogin]_vars

\* Generation levels: MaxPersons people without birth dates are on file; the
\* admin links them through add_child, and get_generation_level is called for
\* any of them, with a root or without, and runs to its return.
InitLevel ==
    /\ users = InitUsers
    /\ persons = [i \in PersonIds |-> InitPerson(NULL, 1)]
    /\ next_person_id = MaxPersons + 1
    /\ InitEmptyTables

NextLevel ==
    \/ \E p \in PersonIds, c \in PersonIds : AddChildValidate(1, 1, p, c)
    \/ AddChildSave(1)
    \/ \E p \in PersonIds, root \in PersonIds \cup {NULL} : GenerationCall(p, root)
    \/ GenerationWalk
    \/ GenerationSearch

\* a call that can take its next step takes it
SpecLevel ==
    InitLevel /\ [][NextLevel]_vars /\ WF_vars(GenerationWalk) /\ WF_vars(GenerationSearch)

\* Consistency check: MaxPersons people are on file, the last of them without
\* a birth date; the admin links them, gives the last one a birth date,
\* deletes the one before, runs validate_family_tree and downloads the export,
\* each with or without an exception on one Person.
InitValidate ==
    /\ users = InitUsers
    /\ persons = [i \in PersonIds |->
                     InitPerson(IF i = 1 THEN DateOf.y1950
                                ELSE IF i = MaxPersons THEN NULL ELSE DateOf.y1975, 1)]
    /\ next_person_id = MaxPersons + 1
    /\ InitEmptyTables

NextValidate ==
    \/ \E r \in ReqIds, p \in PersonIds, c \in PersonIds : AddChildValidate(1, r, p, c)
    \/ \E r \in ReqIds : AddChildSave(r)
    \/ PersonEdit(1, MaxPersons, DateOf.y1960, NULL, "")
    \/ PersonDelete(1, MaxPersons - 1)
    \/ \E fault \in ExportFaults : ExportGedcom(1, fault)
    \/ \E fault \in ValidateFaults : ValidateFamilyTree(fault)

SpecValidate == InitValidate /\ [][NextValidate]_vars

\* ------------------------------------------------------------------ claims
ConfirmedEdge(p, c) ==
    \E e \in parent_child : e.parent = p /\ e.child = c /\ e.status = "confirmed"

\* C1: every confirmed ParentChild edge (p, c) shows c among p's children and
\* p among c's parents, and get_children / get_parents return only persons on
\* file that a confirmed edge links to the receiver.
C1_InverseConsistency ==
    /\ \A e \in parent_child : e.status = "confirmed" =>
          /\ e.child \in get_children(parent_child, e.parent)
          /\ e.parent \in get_parents(parent_child, e.child)
    /\ \A x \in DOMAIN persons :
          /\ \A c \in get_children(parent_child, x) : Exists(c) /\ ConfirmedEdge(x, c)
          /\ \A p \in get_parents(parent_child, x) : Exists(p) /\ ConfirmedEdge(p, x)

\* an edge is on file after a person with edges was deleted
C1_Witness ==
    /\ parent_child # {}
    /\ DOMAIN persons # PersonIds
    /\ Cardinality(parent_child) + 1 < next_pc_id

\* C2: every stored Partnership has person1 < person2 and no two rows hold
\* the same unordered pair.
C2_PartnershipNormalized ==
    /\ \A e \in partnerships : e.person1 < e.person2
    /\ \A e \in partnerships, f \in partnerships :
          {e.person1, e.person2} = {f.person1, f.person2} => e = f

\* two unions of the same person are on file
C2_Witness ==
    \E e \in partnerships, f \in partnerships : e # f /\ e.person1 = f.person1

\* C3: no ParentChild row has parent = child and no two rows share
\* (parent, child), also when add_child requests for one pair interleave.
C3_ParentChildUnique ==
    /\ \A e \in parent_child : e.parent # e.child
    /\ \A e \in parent_child, f \in parent_child :
          (e.parent = f.parent /\ e.child = f.child) => e = f

\* a request that passed the form for a pair another request has saved since
C3_Witness ==
    \E r \in ReqIds :
        /\ reqs[r].pc = "validated"
        /\ \E e \in parent_child : e.parent = reqs[r].parent /\ e.child = reqs[r].child

\* C4: get_siblings(x) is the set of persons other than x that share a
\* confirmed parent with x; with A -> B and A -> C the only edges,
\* get_siblings(B) is C alone.
C4_Siblings ==
    /\ \A x \in DOMAIN persons :
          /\ get_siblings(parent_child, x) =
                {y \in DOMAIN persons : y # x /\ \E p \in DOMAIN persons :
                                            ConfirmedEdge(p, x) /\ ConfirmedEdge(p, y)}
          /\ x \notin get_siblings(parent_child, x)
    /\ \A a \in DOMAIN persons, b \in DOMAIN persons, c \in DOMAIN persons :
          ({<<e.parent, e.child>> : e \in parent_child} = {<<a, b>>, <<a, c>>} /\ b # c)
              => get_siblings(parent_child, b) = {c}

\* exactly the edges A -> B and A -> C are on file
C4_Witness ==
    \E a \in DOMAIN persons, b \in DOMAIN persons, c \in DOMAIN persons :
        b # c /\ {<<e.parent, e.child>> : e \in parent_child} = {<<a, b>>, <<a, c>>}

\* persons reachable from x over one or more confirmed parent hops
RECURSIVE AncestorsFrom(_, _)
AncestorsFrom(pc, found) ==
    LET more == found \cup UNION {get_parents(pc, y) : y \in found}
    IN  IF more = found THEN found ELSE AncestorsFrom(pc, more)

Ancestors(pc, x) == AncestorsFrom(pc, get_parents(pc, x))

\* C5: get_generation_level(person, root) is positive for a descendant of
\* root and negative for an ancestor of root, and is 1 for a direct child.
C5_GenerationSign ==
    /\ \A e \in parent_child : e.status = "confirmed" =>
          get_generation_level(parent_child, e.child, e.parent) = <<1>>
    /\ \A x \in DOMAIN persons, root \in DOMAIN persons :
          LET g == get_generation_level(parent_child, x, root) IN
          /\ (root \in Ancestors(parent_child, x) /\ x \notin Ancestors(parent_child, root))
                => (g # <<>> /\ g[1] > 0)
          /\ (x \in Ancestors(parent_child, root) /\ root \notin Ancestors(parent_child, x))
                => (g # <<>> /\ g[1] < 0)

ThreeCycle(a, b, c) ==
    /\ a # b /\ b # c /\ a # c
    /\ ConfirmedEdge(a, b) /\ ConfirmedEdge(b, c) /\ ConfirmedEdge(c, a)

\* C6: on a cycle A -> B -> C -> A of confirmed edges,
\* has_circular_relationship(p, {}) is True for each of the three and
\* validate_family_tree reports each of them.
C6_ThreeCycleFlagged ==
    \A a \in DOMAIN persons, b \in DOMAIN persons, c \in DOMAIN persons :
        ThreeCycle(a, b, c) =>
            /\ has_circular_relationship(parent_child, a, {}, 0)
            /\ a \in validate_family_tree_circular(persons, parent_child)

\* the three-person cycle is on file
C6_Witness ==
    \E a \in DOMAIN persons, b \in DOMAIN persons, c \in DOMAIN persons : ThreeCycle(a, b, c)

EdgesReferencePersons ==
    /\ \A e \in parent_child : Exists(e.parent) /\ Exists(e.child)
    /\ \A e \in partnerships : Exists(e.person1) /\ Exists(e.person2)

\* C7: a step that deletes a Person removes exactly the ParentChild and
\* Partnership rows with that Person as an endpoint, and every row always
\* references two Persons on file.
C7_DeleteCascades ==
    /\ []EdgesReferencePersons
    /\ [][\A p \in DOMAIN persons : p \notin DOMAIN persons' =>
            /\ parent_child' = {e \in parent_child : e.parent # p /\ e.child # p}
            /\ partnerships' = {e \in partnerships : e.person1 # p /\ e.person2 # p}]_vars

\* a person with edges of both kinds was deleted and other edges remain
C7_Witness ==
    /\ DOMAIN persons # PersonIds
    /\ Cardinality(parent_child) + 1 < next_pc_id
    /\ Cardinality(partnerships) + 1 < next_ps_id
    /\ parent_child # {} \/ partnerships # {}

BirthsOrdered(p, c) ==
    (persons[p].birth_date # NULL /\ persons[c].birth_date # NULL)
        => persons[p].birth_date < persons[c].birth_date

\* C8 as stated: for every ParentChild edge whose parent and child both have
\* a birth date, the parent's is strictly earlier, in every state reachable
\* through add_child, person_edit and review_proposal approval.
C8_BirthOrderAlways ==
    \A e \in parent_child : (Exists(e.parent) /\ Exists(e.child)) => BirthsOrdered(e.parent, e.child)

\* C8 amended: whenever add_child's form accepts a (parent, child) pair whose
\* two birth dates are set, the parent's birth date is strictly earlier than
\* the child's at that moment; nothing keeps the order afterwards.
C8_BirthOrderAtValidation ==
    [][\A r \in ReqIds : (reqs[r].pc = "idle" /\ reqs'[r].pc = "validated")
            => BirthsOrdered(reqs'[r].parent, reqs'[r].child)]_vars

\* an accepted add_child request between two people who both have a birth date
C8_Witness ==
    \E r \in ReqIds :
        /\ reqs[r].pc = "validated"
        /\ Exists(reqs[r].parent) /\ Exists(reqs[r].child)
        /\ persons[reqs[r].parent].birth_date # NULL
        /\ persons[reqs[r].child].birth_date # NULL

\* C9 as stated: every AuditLog entry written stays in the log with all of
\* its fields unchanged.
C9_AppendOnly ==
    [][\A k \in 1..Len(audit_log) : Len(audit_log') >= k /\ audit_log'[k] = audit_log[k]]_vars

\* C9 amended: no AuditLog entry is ever removed, and its action, model,
\* object id and changes never change; its actor changes only by becoming
\* null when delete_user deletes that actor.
C9_AppendOnlyActorNulled ==
    [][\A k \in 1..Len(audit_log) :
          /\ Len(audit_log') >= k
          /\ [audit_log'[k] EXCEPT !.user = NULL] = [audit_log[k] EXCEPT !.user = NULL]
          /\ \/ audit_log'[k].user = audit_log[k].user
             \/ /\ audit_log'[k].user = NULL
                /\ audit_log[k].user \in DOMAIN users
                /\ audit_log[k].user \notin DOMAIN users']_vars

\* an entry whose actor was deleted is still in the log, actor null
C9_Witness ==
    \E k \in 1..Len(audit_log) :
        /\ audit_log[k].user = NULL
        /\ Len(audit_log) > k
        /\ audit_log[Len(audit_log)].action = "delete"

\* C10: for every stored Person, is_deceased is true exactly when death_date
\* is set.
C10_DeceasedIffDeathDate ==
    \A p \in DOMAIN persons : persons[p].is_deceased <=> (persons[p].death_date # NULL)

\* an approved death_date proposal has marked its person deceased
C10_Witness ==
    \E i \in DOMAIN proposals :
        /\ proposals[i].status = "approved"
        /\ proposals[i].field_name = "death_date"
        /\ persons[proposals[i].person].is_deceased
        /\ persons[proposals[i].person].death_date # NULL

\* C11: a review_proposal request from a user whose role is not 'admin'
\* leaves the proposals (status and reviewer), the persons and the audit log
\* unchanged, and whenever a proposal's status changes its reviewer is an
\* admin.
C11_ReviewOnlyByAdmin ==
    [][/\ \A u \in DOMAIN users, i \in DOMAIN proposals :
             (users[u].role # "admin" /\ (ReviewApprove(u, i) \/ ReviewReject(u, i)))
                 => UNCHANGED <<proposals, persons, audit_log>>
       /\ \A i \in DOMAIN proposals \cap DOMAIN proposals' :
             proposals'[i].status # proposals[i].status
                 => /\ proposals'[i].reviewed_by \in DOMAIN users
                    /\ users[proposals'[i].reviewed_by].role = "admin"]_vars

\* a member was turned away from a pending proposal that an admin had not
\* reviewed
C11_Witness ==
    /\ response.view = "review_proposal"
    /\ response.outcome = "denied"
    /\ \E u \in ActiveUsers : users[u].role # "admin"
    /\ \E i \in DOMAIN proposals : proposals[i].status = "pending"

\* C14 as stated: calculate_relationship(x, x) is "same_person", and for
\* every confirmed ParentChild(parent, child), calculate_relationship(parent,
\* child) is "parent" and calculate_relationship(child, parent) is "child".
C14_ParentChildLabels ==
    /\ \A x \in DOMAIN persons :
          calculate_relationship(parent_child, partnerships, x, x) = "same_person"
    /\ \A e \in parent_child : e.status = "confirmed" =>
          /\ calculate_relationship(parent_child, partnerships, e.parent, e.child) = "parent"
          /\ calculate_relationship(parent_child, partnerships, e.child, e.parent) = "child"

\* C14 amended: calculate_relationship(x, x) is "same_person"; for every
\* confirmed ParentChild(parent, child), calculate_relationship(parent, child)
\* is "parent", whatever else links the two, and calculate_relationship(child,
\* parent) is "child" unless the child is also a confirmed parent of the
\* parent, when the earlier check makes it "parent".
C14_ParentChildLabelsByPriority ==
    /\ \A x \in DOMAIN persons :
          calculate_relationship(parent_child, partnerships, x, x) = "same_person"
    /\ \A e \in parent_child : e.status = "confirmed" =>
          /\ calculate_relationship(parent_child, partnerships, e.parent, e.child) = "parent"
          /\ calculate_relationship(parent_child, partnerships, e.child, e.parent) =
                IF ConfirmedEdge(e.child, e.parent) THEN "parent" ELSE "child"

\* a parent and child who are also partners, the child not being a parent of
\* the parent, and a third person who is a child of one of them
C14_Witness ==
    \E e \in parent_child :
        /\ ~ConfirmedEdge(e.child, e.parent)
        /\ e.child \in get_partners(partnerships, e.parent)
        /\ \E f \in parent_child : f.child \notin {e.parent, e.child}

\* C15: when a person_edit request saves, also after another request on the
\* same Person has saved since this one loaded it, no error is raised and the
\* stored Person holds the field values this request submitted, whatever the
\* other request had changed; the columns that are not form fields are those
\* of the copy this request loaded.  (A save whose requesting user, creator or
\* owner was deleted meanwhile is not covered.)
C15_LastWriteWins ==
    [][\A r \in ReqIds :
          (/\ edits[r].pc = "loaded" /\ edits'[r].pc = "idle"
           /\ {edits[r].user, edits[r].loaded.owned_by, edits[r].loaded.created_by}
                  \subseteq DOMAIN users \cup {NULL})
          => /\ response'.view = "person_edit" /\ response'.outcome = "redirect"
             /\ edits[r].person \in DOMAIN persons'
             /\ persons'[edits[r].person] =
                   [edits[r].loaded EXCEPT !.birth_date = edits[r].birth_date,
                                           !.death_date = edits[r].death_date,
                                           !.profession = edits[r].profession,
                                           !.is_deceased = (edits[r].death_date # NULL)]]_vars

\* two edits of one Person have saved one after the other; the first changed
\* the birth date, the second, built on a copy loaded before that, did not
\* list the birth date among its changes, and the stored birth date is again
\* the one on file at the start
C15_Witness ==
    \E k \in 1..(Len(audit_log) - 1) :
        /\ audit_log[k].action = "update" /\ audit_log[k + 1].action = "update"
        /\ audit_log[k].model_name = "Person" /\ audit_log[k + 1].model_name = "Person"
        /\ audit_log[k].object_id = audit_log[k + 1].object_id
        /\ "birth_date" \in audit_log[k].changes
        /\ audit_log[k + 1].changes = {"profession"}
        /\ Exists(audit_log[k].object_id)
        /\ persons[audit_log[k].object_id].birth_date = DateOf.y1950
        /\ persons[audit_log[k].object_id].profession = "farmer"
        /\ response.view = "person_edit" /\ response.outcome = "redirect"

ExportSent == response.view = "export_gedcom"

IndiLines(doc, p) == {k \in 1..Len(doc) : doc[k].tag = "INDI" /\ doc[k].ref = p}

TagLines(doc, tag) == {k \in 1..Len(doc) : doc[k].tag = tag}

\* C12: every exported document begins with '0 HEAD' and ends with '0 TRLR';
\* an export that met no exception begins with the whole header block and
\* holds exactly one INDI record per Person on file and none for anyone else:
\* none for an empty registry, and one INDI and no FAM for a single Person
\* without relationships.
C12_ExportStructure ==
    ExportSent =>
        LET doc == response.body.lines IN
        /\ doc[1] = Line(0, "HEAD", NULL, "")
        /\ doc[Len(doc)] = Line(0, "TRLR", NULL, "")
        /\ response.body.printed = <<>> =>
              /\ SubSeq(doc, 1, Len(gedcom_header)) = gedcom_header
              /\ \A p \in DOMAIN persons : Cardinality(IndiLines(doc, p)) = 1
              /\ Cardinality(TagLines(doc, "INDI")) = Cardinality(DOMAIN persons)
              /\ Cardinality(TagLines(doc, "TRLR")) = 1
              /\ (parent_child = {} /\ partnerships = {}) => TagLines(doc, "FAM") = {}

\* a single Person without relationships was exported without an exception
C12_Witness ==
    /\ ExportSent
    /\ response.body.printed = <<>>
    /\ Cardinality(DOMAIN persons) = 1
    /\ parent_child = {} /\ partnerships = {}
    /\ Cardinality(TagLines(response.body.lines, "INDI")) = 1

\* the CHIL refs of the family block of a Partnership: the lines after its
\* FAM, HUSB and WIFE lines up to the empty line
RECURSIVE ChilRefsFrom(_, _)
ChilRefsFrom(doc, k) ==
    IF k > Len(doc) \/ doc[k].tag # "CHIL" THEN {}
    ELSE {doc[k].ref} \cup ChilRefsFrom(doc, k + 1)

FamilyBlocks(doc, e) ==
    {k \in TagLines(doc, "FAM") :
        /\ k + 2 <= Len(doc)
        /\ doc[k + 1] = Line(1, "HUSB", e.person1, "")
        /\ doc[k + 2] = Line(1, "WIFE", e.person2, "")}

\* C13: in an export that met no exception, the family block of every
\* confirmed Partnership lists as CHIL exactly the persons who are children
\* of both partners.
C13_SharedChildrenOnly ==
    (ExportSent /\ response.body.printed = <<>>) =>
        \A e \in partnerships : e.status = "confirmed" =>
            /\ FamilyBlocks(response.body.lines, e) # {}
            /\ \A k \in FamilyBlocks(response.body.lines, e) :
                  ChilRefsFrom(response.body.lines, k + 3) =
                      get_children(parent_child, e.person1) \cap
                      get_children(parent_child, e.person2)

\* C18: an add_child request whose child is the parent itself, or already a
\* child of the parent, or born, like the parent, on a known date that is not
\* after the parent's or less than 10 years after it, ends at the form with
\* its errors: it is not admitted to the save, and no ParentChild edge and no
\* AuditLog entry is written.
C18_AddChildRejected ==
    [][\A u \in DOMAIN users, r \in ReqIds, p \in PersonIds, c \in PersonIds :
          (/\ AddChildValidate(u, r, p, c)
           /\ \/ c = p
              \/ \E e \in parent_child : e.parent = p /\ e.child = c
              \/ /\ c \in DOMAIN persons
                 /\ persons[p].birth_date # NULL /\ persons[c].birth_date # NULL
                 /\ \/ persons[p].birth_date >= persons[c].birth_date
                    \/ (persons[c].birth_date - persons[p].birth_date) * 100
                           < 10 * DaysPerYearX100)
          => /\ response'.view = "add_child" /\ response'.outcome = "form"
             /\ response'.body # <<>>
             /\ UNCHANGED <<parent_child, audit_log, reqs>>]_vars

\* a child born less than 10 years after the parent was refused at the form
\* while an edge was on file
C18_Witness ==
    /\ response.view = "add_child" /\ response.outcome = "form"
    /\ response.body = <<"birth_dates">>
    /\ parent_child # {}
    /\ \A e \in parent_child : e.parent = 1 => e.child # 3

\* C19: an add_partnership request that selects the person themselves, or a
\* partner with whom a Partnership is on file in either order, ends with the
\* form shown again: no exception leaves the view and no Partnership and no
\* AuditLog entry is stored.
C19_AddPartnershipRejected ==
    [][\A u \in DOMAIN users, p \in PersonIds, p2 \in PersonIds :
          (/\ AddPartnership(u, p, p2)
           /\ \/ p2 = p
              \/ \E e \in partnerships : {e.person1, e.person2} = {p, p2})
          => /\ response'.view = "add_partnership" /\ response'.outcome = "form"
             /\ UNCHANGED <<partnerships, audit_log>>]_vars

\* new_value as the column of the field holds it: a date for the date fields
StoredValue(field, text) ==
    IF field \in {"birth_date", "death_date"} THEN ParseDate(text) ELSE text

RECURSIVE WithinHops(_, _)
WithinHops(x, n) ==
    IF n = 0 THEN {x}
    ELSE LET near == WithinHops(x, n - 1)
         IN  near \cup {y \in DOMAIN persons :
                           \E z \in near : ConfirmedEdge(z, y) \/ ConfirmedEdge(y, z)}

\* C21: get_generation_level(person, root) is 0 exactly when person is root,
\* None exactly when no path of confirmed parent or child hops joins them,
\* and otherwise a value whose absolute value is the length of the shortest
\* such path.
C21_ShortestPathLevel ==
    \A x \in DOMAIN persons, root \in DOMAIN persons :
        LET g == get_generation_level(parent_child, x, root)
            hops == {n \in 0..MaxPersons : root \in WithinHops(x, n)}
        IN  /\ (g = <<0>>) <=> (x = root)
            /\ (g = <<>>) <=> (hops = {})
            /\ g # <<>> =>
                  /\ (IF g[1] < 0 THEN -g[1] ELSE g[1]) \in hops
                  /\ \A n \in hops : (IF g[1] < 0 THEN -g[1] ELSE g[1]) <= n

\* two persons without an edge between them are two hops apart
C21_Witness ==
    \E x \in DOMAIN persons, root \in DOMAIN persons :
        /\ x # root
        /\ ~ConfirmedEdge(x, root) /\ ~ConfirmedEdge(root, x)
        /\ get_generation_level(parent_child, x, root) \in {<<2>>, <<-2>>}

\* C22: every call of get_generation_level returns, with the root given or
\* omitted, on every graph add_child can build, circular ones included.
C22_GenerationLevelReturns ==
    [](gen_call.pc \in {"walk", "search"} => <>(gen_call.pc = "done"))

\* once the root is known, the search of get_generation_level returns
GenerationSearchReturns ==
    [](gen_call.pc = "search" => <>(gen_call.pc = "done"))

\* C23: has_circular_relationship(p, {}) is True only for a person who is
\* their own ancestor over confirmed edges, and validate_family_tree reports
\* a circular relationship for no one else; on an acyclic graph it reports
\* none.
C23_CircularOnlyOnCycles ==
    \A p \in DOMAIN persons :
        /\ has_circular_relationship(parent_child, p, {}, 0) => p \in Ancestors(parent_child, p)
        /\ p \in validate_family_tree_circular(persons, parent_child)
              => p \in Ancestors(parent_child, p)

\* C24: once a proposal is 'approved' or 'rejected', a later review_proposal
\* request, approve or reject, changes neither its status nor a Person, so
\* its new_value is applied at most once and never after a rejection.
C24_ReviewedOnce ==
    [][\A u \in DOMAIN users, i \in DOMAIN proposals :
          (/\ proposals[i].status \in {"approved", "rejected"}
           /\ ReviewApprove(u, i) \/ ReviewReject(u, i))
          => /\ proposals'[i].status = proposals[i].status
             /\ persons' = persons]_vars

\* C27: add_child with p as parent and add_partnership with p as person1
\* store an edge only for a requester who satisfies p.can_be_modified_by; the
\* request of any other user leaves the ParentChild and Partnership sets
\* unchanged.
C27_EdgesNeedPermission ==
    [][/\ \A r \in ReqIds :
             (AddChildSave(r) /\ ~can_be_modified_by(reqs[r].parent, reqs[r].user))
                 => UNCHANGED <<parent_child, partnerships>>
       /\ \A u \in DOMAIN users, p \in DOMAIN persons, p2 \in PersonIds :
             (AddPartnership(u, p, p2) /\ ~can_be_modified_by(p, u))
                 => UNCHANGED <<parent_child, partnerships>>]_vars

\* C28: person_delete removes the Person only for a requester who is admin or
\* the Person's owner; for any other requester, the creator and the linked
\* account included, the Person and every edge stay as they are; and a Person
\* leaves the registry in no other way.
C28_DeleteByAdminOrOwner ==
    [][/\ \A u \in DOMAIN users, p \in DOMAIN persons :
             PersonDelete(u, p) =>
                 IF users[u].role = "admin" \/ persons[p].owned_by = u
                 THEN p \notin DOMAIN persons'
                 ELSE UNCHANGED <<persons, parent_child, partnerships, proposals>>
       /\ \A p \in DOMAIN persons \ DOMAIN persons' :
             \E u \in DOMAIN users :
                 /\ PersonDelete(u, p)
                 /\ users[u].role = "admin" \/ persons[p].owned_by = u]_vars

\* the member was refused the deletion of a Person they created, or are the
\* linked account of, while that Person had an edge
C28_Witness ==
    /\ response.view = "person_delete" /\ response.outcome = "denied"
    /\ \E p \in DOMAIN persons :
          /\ response.body = <<p>>
          /\ persons[p].created_by = 2 \/ persons[p].user_account = 2
          /\ persons[p].owned_by # 2
          /\ \E e \in parent_child : e.parent = p \/ e.child = p

\* C29: the tree data that get_family_tree_data returns for a user and a
\* center holds nothing about a Person the user cannot view: no such Person
\* has an entry, and no such Person's id is in an entry's parents, partners
\* or children or is the root_person_id.
C29_TreeDataHidesNonViewable ==
    \A u \in DOMAIN users \cup {NULL}, center \in DOMAIN persons :
            LET tree == get_family_tree_data(persons, parent_child, partnerships, center, u)
                hidden == {q \in DOMAIN persons : ~can_view_person(u, persons[q])}
            IN  /\ DOMAIN tree.individuals \cap hidden = {}
                /\ tree.root_person_id \notin hidden
                /\ \A p \in DOMAIN tree.individuals :
                      (tree.individuals[p].parents \cup tree.individuals[p].partners
                          \cup tree.individuals[p].children) \cap hidden = {}

\* C30: every stored Person with both dates set is born strictly before
\* dying, in every state reachable through person_create, person_edit and
\* review_proposal approval, and validate_family_tree reports no birth after
\* death.
C30_BirthBeforeDeath ==
    \A p \in DOMAIN persons :
        /\ (persons[p].birth_date # NULL /\ persons[p].death_date # NULL)
              => persons[p].birth_date < persons[p].death_date
        /\ validate_dates(persons, parent_child, p).errors = {}

\* C25: an OTP token results in at most one successful login, also when two
\* otp_verify requests carrying it interleave.
C25_TokenUsedOnce ==
    \A k \in 1..Len(logins), j \in 1..Len(logins) :
        (k # j /\ logins[k].otp # NULL) => logins[k].otp # logins[j].otp

\* C26: a session becomes logged in as an admin only in otp_verify, for the
\* session's otp_user_id, after a token of that user passed the check while
\* unused and unexpired; login_view never does it; resend_otp leaves every
\* earlier token of the user used, and a used token stays used and passes no
\* later check.
C26_AdminLoginNeedsToken ==
    [][/\ \A s \in SessionIds :
             (sessions'[s].pc = "checked" /\ sessions[s].pc # "checked")
                 => \E o \in otp_tokens :
                       /\ o.id = sessions'[s].otp
                       /\ o.user = sessions[s].otp_user_id
                       /\ ~o.is_used /\ ~o.expired
       /\ \A s \in SessionIds :
             (/\ sessions'[s].user # sessions[s].user
              /\ sessions'[s].user \in DOMAIN users
              /\ users[sessions'[s].user].role = "admin")
                 => /\ response'.view = "otp_verify"
                    /\ sessions[s].pc = "checked"
                    /\ sessions[s].otp_user_id = sessions'[s].user
                    /\ \E o \in otp_tokens : o.id = sessions[s].otp /\ o.user = sessions'[s].user
       /\ \A s \in SessionIds, token \in TokenValues, email_sent \in BOOLEAN :
             ResendOtp(s, token, email_sent)
                 => \A o \in otp_tokens' :
                       (o.user = sessions[s].otp_user_id /\ o.id < next_otp_id) => o.is_used
       /\ \A o \in otp_tokens : o.is_used =>
             \E n \in otp_tokens' : n.id = o.id /\ n.is_used]_vars

\* the admin is logged in with a token that resend_otp issued after it had
\* marked an earlier token used
C26_Witness ==
    \E k \in 1..Len(logins) :
        /\ logins[k].user \in DOMAIN users
        /\ users[logins[k].user].role = "admin"
        /\ sessions[logins[k].session].user = logins[k].user
        /\ \E o \in otp_tokens :
              /\ o.user = logins[k].user /\ o.is_used
              /\ o.id < logins[k].otp
              /\ \A j \in 1..Len(logins) : logins[j].otp # o.id

ValidateSent == response.view = "validate_family_tree"

\* the Person whose check raised in the run of validate_family_tree just made
FailedCheck(kind) == {m.person : m \in {w \in response.body.warnings : w.kind = kind}}

\* a run of validate_family_tree in which the check of one Person raised
\* reports of every other Person what a run without exception reports
ValidatorIsolates ==
    ValidateSent =>
        LET clean == validate_family_tree(persons, parent_child, [at |-> "none", id |-> NULL])
            got == response.body
        IN  /\ {m \in got.errors : m.kind = "circular"}
                  = {m \in clean.errors : m.kind = "circular"
                                           /\ m.person \notin FailedCheck("check_failed")}
            /\ {m \in got.errors : m.kind # "circular"}
                  = {m \in clean.errors : m.kind # "circular"
                                           /\ m.person \notin FailedCheck("dates_failed")}
            /\ {m \in got.warnings : m.kind = "age_gap"}
                  = {m \in clean.warnings : m.person \notin FailedCheck("dates_failed")}
            /\ \A m \in got.errors : m.kind # "general"

\* C17: a failure while one Person is processed does not abort the pass:
\* validate_family_tree still reports on every other Person, and the export
\* still holds the INDI record of every other Person on file.
C17_PerPersonIsolation ==
    /\ ValidatorIsolates
    /\ ExportSent =>
          Cardinality({p \in DOMAIN persons : IndiLines(response.body.lines, p) = {}}) <= 1

\* C16: when an exception occurred while individuals or families were
\* emitted, the document is the minimal header followed by exactly one
\* '0 TRLR' line, with no INDI or FAM record.
C16_FallbackOneTrailer ==
    (ExportSent /\ response.body.printed = <<"Error generating GEDCOM">>) =>
        LET doc == response.body.lines IN
        /\ TagLines(doc, "INDI") = {} /\ TagLines(doc, "FAM") = {}
        /\ Cardinality(TagLines(doc, "TRLR")) = 1
        /\ doc[1] = Line(0, "HEAD", NULL, "")
        /\ doc[Len(doc)] = Line(0, "TRLR", NULL, "")

====
